---- MODULE Spec2Model ----
(***************************************************************************)
(* NullPhaser bot (src/main.py): the subscription registry (add_stalk,     *)
(* remove_stalk, list_stalks), the fetch client (safe_get_json) and the    *)
(* background stalker (stalker_logic) with the command handlers that run   *)
(* between its suspension points.                                          *)
(*                                                                         *)
(* Python values are modelled as records so that values of different       *)
(* Python types can be compared: None is [none |-> TRUE], a list is        *)
(* [list |-> <<...>>], an int submission id is [id |-> n], a str one is    *)
(* [key |-> "..."], a JSON object is a record of its keys.                 *)
(***************************************************************************)
EXTENDS Integers, Sequences, FiniteSets, TLC

VARIABLES
    STALK_LIST,       \* [platform -> dict str(chat_id) -> list of handles], dicts in insertion order
    stalking_active,  \* [platform -> BOOLEAN]: stalking_active_cf / stalking_active_ac
    last_solved,      \* [platform -> [handle -> sub_id, None when the dict has no entry]]
    calls,            \* the last two registry calls [name, chat_id, platform, handle, ret]
    ncmd,             \* commands handled so far (registry runs: calls made)
    USER_NICKS,       \* dict str(user_id) -> [cf, ac]: the nicknames set_user_nick stored
    disk,             \* data.json, in the runs that watch it: [on, content, before, last] with
                      \* the content before the last save_all call and how that call went
    tasks,            \* the handler tasks of the follow / unfollow commands received, in the
                      \* runs that watch them: <<[op, chat_id, platform, handle, pc, tested, ret]>>
    st_pc,            \* await the stalker task is suspended at
    st_judge,         \* phase the stalker is in: "cf", "ac", or "none" between passes
    handle_to_chats,  \* reverse index of the phase in progress (insertion-ordered dict)
    st_idx,           \* position of `handle` in handle_to_chats
    st_sub_id,        \* local sub_id of the handle being processed (None: not assigned)
    st_new,           \* the test `last_solved.get(handle) != sub_id` passed for this handle
    st_seen,          \* id of the accepted submission the last poll returned (None: none)
    st_cached,        \* what last_solved.get(handle) returned at the test of line 198 / 235
    st_chat,          \* position of chat_str in chats during the fan-out
    attempts,         \* send_message calls made for this handle: <<[chat, ok]>>
    polled,           \* handles safe_get_json was called for in the phase in progress
    gated,            \* platforms with tracked handles whose phase this pass skipped: toggle off
    cycle,            \* passes of `while True` started
    runs,             \* [platform -> [handle -> [id, polls, sent]]]: the accepted sub_id polled
                      \* last, the polls in a row that returned it, and how many of them sent
    firstFail,        \* the first failed delivery [judge, handle, sub_id, chat, cycle, clean]
    retried,          \* whether firstFail's submission went to firstFail's chat again later
    notified,         \* <<platform, handle>> pairs a send_message call has succeeded for,
                      \* in the runs that watch the deliveries
    st_raised,        \* the per-handle try of the handle being processed ended in its except
    snap,             \* STALK_LIST_CF / STALK_LIST_AC as it was when the phase in progress
                      \* built its reverse index
    clock,            \* [on, elapsed, phases, took, period] in half seconds, in the runs that
                      \* keep time: since the pass started, the phases of the last pass
                      \* finished, and the phases and the length of the last pass restarted
    f_pc,             \* safe_get_json: "idle", "request", "sleeping", "returned", "raised"
    f_retries,        \* safe_get_json argument retries
    f_delay,          \* safe_get_json argument delay
    attempt,          \* safe_get_json loop variable
    backoff,          \* safe_get_json local
    f_sleeps,         \* arguments of the asyncio.sleep calls of this safe_get_json call
    f_tries,          \* GLOBAL_SESSION.get calls of this safe_get_json call
    f_body,           \* body r.json() parsed, when an attempt succeeded
    f_result,         \* value returned by safe_get_json
    f_how             \* how it returned: "json" (line 100), "failure" (line 108), "fallthrough"

regVars == <<STALK_LIST, stalking_active, calls, ncmd, USER_NICKS, disk, tasks>>
stVars == <<last_solved, st_pc, st_judge, handle_to_chats, st_idx, st_sub_id, st_new, st_seen,
            st_cached, st_chat, attempts, polled, gated, cycle, runs, firstFail, retried, notified,
            st_raised, snap, clock>>
fVars == <<f_pc, f_retries, f_delay, attempt, backoff, f_sleeps, f_tries, f_body, f_result,
           f_how>>
vars == <<STALK_LIST, stalking_active, last_solved, calls, ncmd, USER_NICKS, disk, tasks, st_pc, st_judge,
          handle_to_chats, st_idx, st_sub_id, st_new, st_seen, st_cached, st_chat, attempts,
          polled, gated, cycle, runs, firstFail, retried, notified, st_raised, snap, clock, f_pc, f_retries, f_delay, attempt, backoff, f_sleeps,
          f_tries, f_body, f_result, f_how>>

-----------------------------------------------------------------------------
(* Bounds and input domains *)

MaxCmds == 2          \* commands that change the registry or a toggle, per run
MaxCycles == 2        \* passes of the stalker loop, per run
MaxLoadedCycles == 3  \* passes of the stalker loop in the runs that start from a data file
MaxTrackedCycles == 2 \* passes of the stalker loop in the runs of the stalker until shutdown
MaxOps == 3           \* registry calls per registry run
MaxRetries == 3       \* largest `retries` passed to safe_get_json
MaxDelay == 2         \* largest `delay` passed to safe_get_json
MaxTasks == 2         \* handler tasks of follow / unfollow commands, per run
MaxTaskCycles == 1    \* passes of the stalker loop in the runs with handler tasks
MaxFetchTicks == 1    \* longest request of a safe_get_json attempt, in half seconds
MaxSendTicks == 1     \* longest bot.send_message call, in half seconds

Platforms == {"cf", "ac"}
ChatIds == {100, 200}
Handles == {"alice", "bob"}
SubmissionNumbers == {1, 2}

-----------------------------------------------------------------------------
(* Python values *)

NoneVal == [none |-> TRUE]
Missing == [missing |-> TRUE]
PyList(s) == [list |-> s]
EmptyDict == [dict |-> TRUE]

\* bool(v) of the values that occur
Truthy(v) == v # NoneVal /\ v # Missing /\ v # PyList(<<>>) /\ v # EmptyDict

\* d.get(key) of a JSON object: a key that is not there reads as None
JGet(v) == IF v = Missing THEN NoneVal ELSE v

\* str(chat_id) and int(chat_str)
StrOf(c) == ToString(c)
IntOf(s) == CHOOSE c \in ChatIds : ToString(c) = s

-----------------------------------------------------------------------------
(* Python dicts in insertion order: sequences of [k, v] with distinct keys *)

Range(s) == {s[i] : i \in DOMAIN s}
Keys(d) == {d[i].k : i \in DOMAIN d}
HasKey(d, key) == key \in Keys(d)
Pos(d, key) == CHOOSE i \in DOMAIN d : d[i].k = key
Lookup(d, key) == d[Pos(d, key)].v
DictGet(d, key, default) == IF HasKey(d, key) THEN Lookup(d, key) ELSE default
DictSet(d, key, val) ==
    IF HasKey(d, key) THEN [d EXCEPT ![Pos(d, key)].v = val]
    ELSE Append(d, [k |-> key, v |-> val])
SetDefault(d, key, default) == IF HasKey(d, key) THEN d ELSE Append(d, [k |-> key, v |-> default])

\* list.remove(x): drops the first occurrence
ListRemove(l, x) ==
    LET i == CHOOSE j \in DOMAIN l : l[j] = x /\ \A m \in 1..(j - 1) : l[m] # x
    IN  [j \in 1..(Len(l) - 1) |-> IF j < i THEN l[j] ELSE l[j + 1]]

NoDup(l) == \A i, j \in DOMAIN l : l[i] = l[j] => i = j

-----------------------------------------------------------------------------
(* Subscription registry: add_stalk, remove_stalk, list_stalks *)

\* mapping = STALK_LIST_CF if platform == "cf" else STALK_LIST_AC
Mapping(platform) == IF platform = "cf" THEN "cf" ELSE "ac"

\* add_stalk without the `if handle not in mapping[k]` test
add_stalk_unchecked(S, chat_id, platform, handle) ==
    LET k == StrOf(chat_id)
        m == Mapping(platform)
        d == SetDefault(S[m], k, <<>>)
    IN  [reg |-> [S EXCEPT ![m] = DictSet(d, k, Append(Lookup(d, k), handle))], ret |-> TRUE]

\* add_stalk: the registry after the call and the value returned
add_stalk(S, chat_id, platform, handle) ==
    LET k == StrOf(chat_id)
        m == Mapping(platform)
        d == SetDefault(S[m], k, <<>>)
    IN  IF handle \notin Range(Lookup(d, k))
        THEN [reg |-> [S EXCEPT ![m] = DictSet(d, k, Append(Lookup(d, k), handle))],
              ret |-> TRUE]
        ELSE [reg |-> [S EXCEPT ![m] = d], ret |-> FALSE]

\* remove_stalk that tests the chat's key only
remove_stalk_key_only(S, chat_id, platform, handle) ==
    LET k == StrOf(chat_id)
        m == Mapping(platform)
    IN  IF HasKey(S[m], k)
        THEN [reg |-> IF handle \in Range(Lookup(S[m], k))
                      THEN [S EXCEPT ![m] = DictSet(S[m], k, ListRemove(Lookup(S[m], k), handle))]
                      ELSE S,
              ret |-> TRUE]
        ELSE [reg |-> S, ret |-> FALSE]

\* remove_stalk: the registry after the call and the value returned
remove_stalk(S, chat_id, platform, handle) ==
    LET k == StrOf(chat_id)
        m == Mapping(platform)
    IN  IF HasKey(S[m], k) /\ handle \in Range(Lookup(S[m], k))
        THEN [reg |-> [S EXCEPT ![m] = DictSet(S[m], k, ListRemove(Lookup(S[m], k), handle))],
              ret |-> TRUE]
        ELSE [reg |-> S, ret |-> FALSE]

\* list_stalks: mapping.get(k, [])
list_stalks(S, chat_id, platform) == DictGet(S[Mapping(platform)], StrOf(chat_id), <<>>)

\* a nickname string as USER_NICKS stores it
Nick(nick) == [nick |-> nick]

\* the platform argument of set_user_nick: "cf", "ac", or None ("any": line 328)
NickPlatforms == {"cf", "ac", "any"}

\* set_user_nick: USER_NICKS after the call
set_user_nick(N, user_id, platform, nick) ==
    LET k == StrOf(user_id)
        d == SetDefault(N, k, [cf |-> NoneVal, ac |-> NoneVal])
        old == Lookup(d, k)
    IN  IF platform \in {"cf", "ac"}
        THEN DictSet(d, k, [old EXCEPT ![platform] = Nick(nick)])
        ELSE DictSet(d, k, [cf |-> Nick(nick), ac |-> Nick(nick)])

\* the dict save_all hands to save_data_raw (lines 46-50)
Data(N, S) == [USER_NICKS |-> N, STALK_LIST_CF |-> S["cf"], STALK_LIST_AC |-> S["ac"]]

\* data.json after open(DATA_FILE, "w") has cut it to nothing and json.dump has
\* not written all of the data
Truncated == [truncated |-> TRUE]

DiskOff == [on |-> FALSE]
DiskOn(content) == [on |-> TRUE, content |-> content, before |-> content, last |-> "none"]

\* how a save_data_raw call can go: it returns, open raises (no permission,
\* read-only file system), or json.dump / the close raises after open has
\* succeeded (disk full, I/O error)
SaveOutcomes(d) == IF d.on THEN {"ok", "open_fails", "write_fails"} ELSE {"ok"}

\* save_data_raw: the file after the call
save_data_raw(file, data, o) ==
    CASE o = "ok" -> data
      [] o = "open_fails" -> file
      [] OTHER -> Truncated

\* save_all: the file after the call, and whether the call raised; `except
\* Exception` catches whatever save_data_raw raised and logs it
save_all(d, data, o) ==
    [disk |-> IF d.on
              THEN [on |-> TRUE, content |-> save_data_raw(d.content, data, o),
                    before |-> d.content, last |-> o]
              ELSE d,
     raised |-> FALSE]

\* what the caller of a registry function gets: the value returned, or the
\* exception of a save_all that raised
Raised == [raised |-> TRUE]
Returned(ret, saved) == IF saved.raised THEN Raised ELSE ret

\* add_stalk with save_data_raw going as o: the registry, the file and what
\* the caller gets
FollowResult(d, N, S, chat_id, platform, handle, o) ==
    LET r == add_stalk(S, chat_id, platform, handle)
        saved == save_all(d, Data(N, r.reg), o)
    IN  IF r.ret
        THEN [reg |-> r.reg, disk |-> saved.disk, ret |-> Returned([bool |-> TRUE], saved)]
        ELSE [reg |-> r.reg, disk |-> d, ret |-> [bool |-> FALSE]]

\* remove_stalk with save_data_raw going as o
UnfollowResult(d, N, S, chat_id, platform, handle, o) ==
    LET r == remove_stalk(S, chat_id, platform, handle)
        saved == save_all(d, Data(N, r.reg), o)
    IN  IF r.ret
        THEN [reg |-> r.reg, disk |-> saved.disk, ret |-> Returned([bool |-> TRUE], saved)]
        ELSE [reg |-> r.reg, disk |-> d, ret |-> [bool |-> FALSE]]

\* set_user_nick with save_data_raw going as o
SetNickResult(d, N, S, user_id, platform, nick, o) ==
    LET n == set_user_nick(N, user_id, platform, nick)
        saved == save_all(d, Data(n, S), o)
    IN  [nicks |-> n, disk |-> saved.disk, ret |-> Returned(NoneVal, saved)]

\* cf_follow_cmd / ac_follow_cmd with the handle resolved
FollowCall(chat_id, platform, handle) ==
    \E o \in SaveOutcomes(disk) :
        LET r == FollowResult(disk, USER_NICKS, STALK_LIST, chat_id, platform, handle, o)
        IN  STALK_LIST' = r.reg /\ disk' = r.disk

\* cf_unfollow_cmd / ac_unfollow_cmd with the handle resolved
UnfollowCall(chat_id, platform, handle) ==
    \E o \in SaveOutcomes(disk) :
        LET r == UnfollowResult(disk, USER_NICKS, STALK_LIST, chat_id, platform, handle, o)
        IN  STALK_LIST' = r.reg /\ disk' = r.disk

\* the registry on its own: each call and what it returned
Call(name, chat_id, platform, handle, r) ==
    [name |-> name, chat_id |-> chat_id, platform |-> platform, handle |-> handle, ret |-> r]
NoCall == Call("none", 0, "none", "none", NoneVal)

RegFrame(c) ==
    /\ ncmd < MaxOps
    /\ ncmd' = ncmd + 1
    /\ calls' = <<calls[2], c>>
    /\ UNCHANGED <<stalking_active, tasks>>
    /\ UNCHANGED stVars
    /\ UNCHANGED fVars

RegFollow(chat_id, platform, handle) ==
    \E o \in SaveOutcomes(disk) :
        LET r == FollowResult(disk, USER_NICKS, STALK_LIST, chat_id, platform, handle, o)
        IN  /\ STALK_LIST' = r.reg
            /\ disk' = r.disk
            /\ UNCHANGED USER_NICKS
            /\ RegFrame(Call("follow", chat_id, platform, handle, r.ret))

RegUnfollow(chat_id, platform, handle) ==
    \E o \in SaveOutcomes(disk) :
        LET r == UnfollowResult(disk, USER_NICKS, STALK_LIST, chat_id, platform, handle, o)
        IN  /\ STALK_LIST' = r.reg
            /\ disk' = r.disk
            /\ UNCHANGED USER_NICKS
            /\ RegFrame(Call("unfollow", chat_id, platform, handle, r.ret))

RegSetNick(user_id, platform, nick) ==
    \E o \in SaveOutcomes(disk) :
        LET r == SetNickResult(disk, USER_NICKS, STALK_LIST, user_id, platform, nick, o)
        IN  /\ USER_NICKS' = r.nicks
            /\ disk' = r.disk
            /\ UNCHANGED STALK_LIST
            /\ RegFrame(Call("set_me", user_id, platform, nick, r.ret))

RegList(chat_id, platform) ==
    /\ UNCHANGED <<STALK_LIST, USER_NICKS, disk>>
    /\ RegFrame(Call("list", chat_id, platform, "none",
                     PyList(list_stalks(STALK_LIST, chat_id, platform))))

-----------------------------------------------------------------------------
(* Fetch client: safe_get_json *)

\* What one pass of the try block can do: the request fails, raise_for_status
\* raises, r.json() raises, or r.json() returns the parsed body.
JsonBodies == {"null", "[]", "{}", "[1]"}
FailOutcomes == {"transport_error", "http_error", "decode_error"}
Outcomes == [kind : FailOutcomes] \cup [kind : {"ok"}, body : JsonBodies]

\* r.json(): json.loads of the body
ParseJson(body) ==
    CASE body = "null" -> NoneVal
      [] body = "[]" -> PyList(<<>>)
      [] body = "{}" -> EmptyDict
      [] OTHER -> PyList(<<1>>)

\* a failure signal of its own, as a client would return that tells the two apart
FailureSentinel == [failed |-> TRUE]

\* the value of `return None` on the final failure (line 108)
FailureValue == NoneVal

\* an except clause that names the transport errors only
CaughtTransportOnly(kind) == kind = "transport_error"

\* `except Exception` (line 101): aiohttp.ClientError, asyncio.TimeoutError,
\* ClientResponseError and the JSON/content-type errors all derive from Exception
Caught(kind) == kind \in {"transport_error", "http_error", "decode_error"}

\* the comparison off by one
AttemptsRemainInclusive(a, retries) == a <= retries

\* `if attempt < retries` (line 102)
AttemptsRemain(a, retries) == a < retries

\* `backoff *= 2` (line 105)
NextBackoff(b) == b * 2

\* the call: backoff = delay, and range(1, retries + 1) may be empty
FetchCall(retries, delay) ==
    /\ f_pc = "idle"
    /\ f_retries' = retries
    /\ f_delay' = delay
    /\ backoff' = delay
    /\ f_sleeps' = <<>>
    /\ f_body' = "none"
    /\ IF retries >= 1
       THEN /\ f_pc' = "request"
            /\ attempt' = 1
            /\ f_tries' = 1
            /\ f_result' = Missing
            /\ f_how' = "running"
       ELSE /\ f_pc' = "returned"
            /\ attempt' = 0
            /\ f_tries' = 0
            /\ f_result' = NoneVal
            /\ f_how' = "fallthrough"
    /\ UNCHANGED regVars
    /\ UNCHANGED stVars

\* GLOBAL_SESSION.get ... r.json() of one attempt ends with outcome o
FetchAttempt(o) ==
    /\ f_pc = "request"
    /\ IF o.kind = "ok"
       THEN /\ f_pc' = "returned"
            /\ f_result' = ParseJson(o.body)
            /\ f_body' = o.body
            /\ f_how' = "json"
            /\ UNCHANGED f_sleeps
       ELSE IF ~Caught(o.kind)
       THEN /\ f_pc' = "raised"
            /\ UNCHANGED <<f_result, f_how, f_sleeps, f_body>>
       ELSE IF AttemptsRemain(attempt, f_retries)
       THEN /\ f_pc' = "sleeping"
            /\ f_sleeps' = Append(f_sleeps, backoff)
            /\ UNCHANGED <<f_result, f_how, f_body>>
       ELSE /\ f_pc' = "returned"
            /\ f_result' = FailureValue
            /\ f_how' = "failure"
            /\ UNCHANGED <<f_sleeps, f_body>>
    /\ UNCHANGED <<f_retries, f_delay, attempt, backoff, f_tries>>
    /\ UNCHANGED regVars
    /\ UNCHANGED stVars

\* asyncio.sleep(backoff) returns: backoff *= 2 and the next attempt starts
FetchSleepDone ==
    /\ f_pc = "sleeping"
    /\ backoff' = NextBackoff(backoff)
    /\ attempt' = attempt + 1
    /\ f_tries' = f_tries + 1
    /\ f_pc' = "request"
    /\ UNCHANGED <<f_retries, f_delay, f_sleeps, f_body, f_result, f_how>>
    /\ UNCHANGED regVars
    /\ UNCHANGED stVars

\* the caller has the value; the client can be called again
FetchDone ==
    /\ f_pc = "returned"
    /\ f_pc' = "idle"
    /\ UNCHANGED <<f_retries, f_delay, attempt, backoff, f_sleeps, f_tries, f_body, f_result,
                   f_how>>
    /\ UNCHANGED regVars
    /\ UNCHANGED stVars

-----------------------------------------------------------------------------
(* Stalker: reverse index *)

\* the (chat_str, h) pairs in the order the two nested loops visit them
RECURSIVE ListPairs(_, _)
ListPairs(chat_str, handles) ==
    IF handles = <<>> THEN <<>>
    ELSE <<[chat |-> chat_str, h |-> Head(handles)]>> \o ListPairs(chat_str, Tail(handles))

RECURSIVE Items(_)
Items(d) == IF d = <<>> THEN <<>> ELSE ListPairs(Head(d).k, Head(d).v) \o Items(Tail(d))

\* handle_to_chats[h] = [chat_str]: the entry overwritten instead of extended
IndexOverwrite(idx, h, chat_str) == DictSet(idx, h, <<chat_str>>)

\* an index with one entry per chat and handle: the registry turned over, not grouped
IndexPerChat(idx, h, chat_str) == Append(idx, [k |-> h, v |-> <<chat_str>>])

\* handle_to_chats.setdefault(h, []).append(chat_str)
IndexAppend(idx, h, chat_str) ==
    LET e == SetDefault(idx, h, <<>>)
    IN  DictSet(e, h, Append(Lookup(e, h), chat_str))

RECURSIVE IndexFold(_, _)
IndexFold(pairs, idx) ==
    IF pairs = <<>> THEN idx
    ELSE IndexFold(Tail(pairs), IndexAppend(idx, Head(pairs).h, Head(pairs).chat))

\* handle_to_chats of a phase, built from STALK_LIST_CF / STALK_LIST_AC
BuildIndex(d) == IndexFold(Items(d), <<>>)

-----------------------------------------------------------------------------
(* Stalker: what a poll returns and how it is classified *)

SubIds == {[id |-> n] : n \in SubmissionNumbers}

SampleProblem == [contestId |-> "1", index |-> "A", name |-> "Sum", rating |-> "800"]
CfProblems == {SampleProblem, [index |-> "A", name |-> "Sum", rating |-> "800"], Missing}
CfSubs == [id : SubIds, verdict : {"OK"}, problem : CfProblems]
              \cup [id : SubIds, verdict : {"WRONG_ANSWER"}, problem : {SampleProblem}]
CfResponses ==
    {NoneVal, EmptyDict, [status |-> "FAILED", result |-> Missing]}
        \cup {[status |-> "OK", result |-> PyList(<<>>)]}
        \cup {[status |-> "OK", result |-> PyList(<<s>>)] : s \in CfSubs}

AcSubs == [id : SubIds \cup {Missing}, result : {"AC", "WA"}, contest_id : {"abc100"},
           problem_id : {"abc100_a"}, epoch_second : {"1600000000"}]
AcOlder == [id |-> [id |-> 1], result |-> "AC", contest_id |-> "abc100",
            problem_id |-> "abc100_a", epoch_second |-> "1600000000"]
AcLists == {<<>>} \cup {<<s>> : s \in {t \in AcSubs : t.result = "AC"}}
               \cup {<<AcOlder, s>> : s \in AcSubs}
AcResponses == {NoneVal, [message |-> "error"]} \cup {PyList(l) : l \in AcLists}

Responses(p) == IF p = "cf" THEN CfResponses ELSE AcResponses

\* f"{sub.get('contest_id')}#{sub.get('problem_id')}#{sub.get('epoch_second')}"
CompositeId(sub) == [key |-> sub.contest_id \o "#" \o sub.problem_id \o "#" \o sub.epoch_second]

\* sub.get('id') or f"..."
AcSubId(sub) == IF Truthy(JGet(sub.id)) THEN sub.id ELSE CompositeId(sub)

\* res["result"][0] (line 195) / kenko_subs[-1] (line 232), when the response has one
LastSubmission(p, res) ==
    IF p = "cf"
    THEN IF "status" \in DOMAIN res /\ res.status = "OK" /\ Truthy(JGet(res.result))
         THEN res.result.list[1] ELSE Missing
    ELSE IF "list" \in DOMAIN res /\ res.list # <<>>
         THEN res.list[Len(res.list)] ELSE Missing

\* the id of that submission when its verdict is the accepted one: 'OK' (line 196),
\* 'AC' (line 233); None when there is no submission or it is not accepted
AcceptedId(p, res) ==
    LET sub == LastSubmission(p, res)
    IN  IF sub = Missing THEN NoneVal
        ELSE IF p = "cf" THEN (IF sub.verdict = "OK" THEN JGet(sub.id) ELSE NoneVal)
        ELSE IF sub.result = "AC" THEN AcSubId(sub) ELSE NoneVal

\* the comparison with the cache left out
IsNewAlways(cached, sub_id) == TRUE

\* last_solved.get(handle) != sub_id
IsNew(cached, sub_id) == cached # sub_id

\* the CF branch without the `if sub.get("verdict") == "OK":` test
CfClassifyAnyVerdict(res, cached) ==
    IF Truthy(res) /\ res.status = "OK" /\ Truthy(JGet(res.result))
    THEN LET sub == res.result.list[1]
         IN  IF IsNew(cached, sub.id)
             THEN IF sub.problem = Missing \/ "contestId" \notin DOMAIN sub.problem
                  THEN [kind |-> "raise", accepted |-> sub.id]
                  ELSE [kind |-> "new", accepted |-> sub.id]
             ELSE [kind |-> "same", accepted |-> sub.id]
    ELSE [kind |-> "nothing", accepted |-> NoneVal]

\* lines 194-208: what the CF branch does with res when last_solved_cf.get(handle) is cached
CfClassify(res, cached) ==
    IF Truthy(res) /\ res.status = "OK" /\ Truthy(JGet(res.result))
    THEN LET sub == res.result.list[1]
         IN  IF sub.verdict = "OK"
             THEN IF IsNew(cached, sub.id)
                  THEN IF sub.problem = Missing \/ "contestId" \notin DOMAIN sub.problem
                       THEN [kind |-> "raise", accepted |-> sub.id]
                       ELSE [kind |-> "new", accepted |-> sub.id]
                  ELSE [kind |-> "same", accepted |-> sub.id]
             ELSE [kind |-> "nothing", accepted |-> NoneVal]
    ELSE [kind |-> "nothing", accepted |-> NoneVal]

\* the AC branch without the `if sub.get('result') == 'AC':` test
AcClassifyAnyResult(res, cached) ==
    IF Truthy(res)
    THEN IF "list" \notin DOMAIN res
         THEN [kind |-> "raise", accepted |-> NoneVal]
         ELSE
         LET sub == res.list[Len(res.list)]
         IN  IF IsNew(cached, AcSubId(sub))
             THEN [kind |-> "new", accepted |-> AcSubId(sub)]
             ELSE [kind |-> "same", accepted |-> AcSubId(sub)]
    ELSE [kind |-> "nothing", accepted |-> NoneVal]

\* lines 231-245: what the AC branch does with kenko_subs
AcClassify(res, cached) ==
    IF Truthy(res)
    THEN IF "list" \notin DOMAIN res
         THEN [kind |-> "raise", accepted |-> NoneVal]
         ELSE
         LET sub == res.list[Len(res.list)]
         IN  IF sub.result = "AC"
             THEN IF IsNew(cached, AcSubId(sub))
                  THEN [kind |-> "new", accepted |-> AcSubId(sub)]
                  ELSE [kind |-> "same", accepted |-> AcSubId(sub)]
             ELSE [kind |-> "nothing", accepted |-> NoneVal]
    ELSE [kind |-> "nothing", accepted |-> NoneVal]

Classify(p, res, cached) == IF p = "cf" THEN CfClassify(res, cached) ELSE AcClassify(res, cached)

-----------------------------------------------------------------------------
(* Stalker: stalker_logic, one action per stretch between two awaits *)

\* last_solved_cf.get(handle) / last_solved_ac.get(handle)
Get(cache, handle) == cache[handle]

\* the fan-out without the assignment that follows it
CacheKeep(cache, handle, sub_id) == cache

\* `last_solved[handle] = sub_id` (lines 214, 251)
CacheUpdate(cache, handle, sub_id) == [cache EXCEPT ![handle] = sub_id]

\* a poll without an accepted submission drops the entry of the handle
ForgetOnNoResult(cache, handle) == [cache EXCEPT ![handle] = NoneVal]

\* the branches of a poll that brought no accepted submission (the `else:` of
\* lines 215-216 and 252-253, the verdict test of lines 196 and 233 failing):
\* a debug log at most, the cache is not touched
OnNoResult(cache, handle) == cache

\* the phase entered whatever the toggle says
PhaseOnAlways(active, p) == TRUE

\* `if stalking_active_cf:` / `if stalking_active_ac:` (lines 184, 222)
PhaseOn(active, p) == active[p]

\* the AC phase indexing STALK_LIST_CF, as the CF phase it was copied from does
SnapshotCfOnly(reg, p) == BuildIndex(reg["cf"])

\* one index for both judges: the chats of a handle on either judge
SnapshotBothJudges(reg, p) == BuildIndex(reg["cf"] \o reg["ac"])

\* handle_to_chats / handle_to_chats_ac as built at the start of the phase of p
\* (lines 186-189 from STALK_LIST_CF, lines 223-226 from STALK_LIST_AC)
Snapshot(reg, p) == BuildIndex(reg[p])

\* the phase is on and its for loop has a handle to poll
PhaseRuns(p) == PhaseOn(stalking_active, p) /\ Snapshot(STALK_LIST, p) # <<>>

\* the first phase, from `from` on, whose for loop reaches safe_get_json
FirstPhase(from) ==
    IF from = "cf" /\ PhaseRuns("cf") THEN "cf"
    ELSE IF from \in {"cf", "ac"} /\ PhaseRuns("ac") THEN "ac"
    ELSE "none"

\* the phases whose `if` is evaluated in the stretch that starts at `from`
Checked(from) ==
    IF from = "cf" THEN (IF PhaseRuns("cf") THEN {"cf"} ELSE {"cf", "ac"})
    ELSE IF from = "ac" THEN {"ac"}
    ELSE {}

\* those of them left out with handles to poll because the toggle is off
Skipped(from) ==
    {p \in Checked(from) : ~stalking_active[p] /\ Snapshot(STALK_LIST, p) # <<>>}

\* half seconds: the unit of the clock
PauseTicks == 1       \* asyncio.sleep(0.5) between two handles (lines 219, 256)
SleepTicks == 120     \* asyncio.sleep(60) at the end of the pass (line 258)

ClockOff == [on |-> FALSE, elapsed |-> 0, phases |-> 0, took |-> 0, period |-> 0]
ClockOn == [on |-> TRUE, elapsed |-> 0, phases |-> 0, took |-> 0, period |-> 0]

\* an await that takes d half seconds
Tick(c, d) == IF c.on THEN [c EXCEPT !.elapsed = @ + d] ELSE c

\* the arguments stalker_logic leaves to their defaults (line 92)
DefaultRetries == 3
DefaultDelay == 1

\* asyncio.sleep(seconds), in half seconds
SleepOf(seconds) == seconds + seconds

\* how long one GLOBAL_SESSION.get ... r.json() exchange can take
AttemptTicks == 0..MaxFetchTicks

\* how long safe_get_json can take from attempt a on: the attempt returns the
\* body or is the last one, or it fails, asyncio.sleep(backoff) follows and
\* the next attempt starts with the backoff doubled (lines 96-108)
RECURSIVE FetchDurations(_, _)
FetchDurations(a, b) ==
    AttemptTicks \cup
        (IF AttemptsRemain(a, DefaultRetries)
         THEN {t + SleepOf(b) + r : t \in AttemptTicks,
                                    r \in FetchDurations(a + 1, NextBackoff(b))}
         ELSE {})

\* how long safe_get_json can take to return
FetchTicks(c) == IF c.on THEN FetchDurations(1, DefaultDelay) ELSE {0}

\* how long bot.send_message can take to return or raise
SendTicks(c) == IF c.on THEN 0..MaxSendTicks ELSE {0}

\* the last phase of the pass is over: the pass reaches line 258
PhasesOver(c) == IF c.on THEN [c EXCEPT !.phases = c.elapsed] ELSE c

\* a sleep for what is left of the minute the pass started in
SleepRemainder(phases) == IF phases < SleepTicks THEN SleepTicks - phases ELSE 0

\* `await asyncio.sleep(60)` (line 258): the argument is the literal 60
SleepFor(phases) == SleepTicks

\* asyncio.sleep of line 258 returns and the next pass starts
Restart(c) ==
    IF c.on
    THEN [c EXCEPT !.elapsed = 0, !.took = c.phases,
                   !.period = c.phases + SleepFor(c.phases)]
    ELSE c

\* the phase of p builds its index and calls safe_get_json for its first handle
EnterPhase(p, c) ==
    /\ st_pc' = "fetch"
    /\ st_judge' = p
    /\ handle_to_chats' = Snapshot(STALK_LIST, p)
    /\ snap' = STALK_LIST[p]
    /\ st_idx' = 1
    /\ polled' = <<Snapshot(STALK_LIST, p)[1].k>>
    /\ clock' = c

\* run from the `if` of phase `from` to the next await, reached at time c
Enter(from, g, c) ==
    /\ gated' = g \cup Skipped(from)
    /\ IF FirstPhase(from) = "cf" THEN EnterPhase("cf", c)
       ELSE IF FirstPhase(from) = "ac" THEN EnterPhase("ac", c)
       ELSE /\ st_pc' = "sleep60"
            /\ st_judge' = "none"
            /\ handle_to_chats' = <<>>
            /\ snap' = <<>>
            /\ st_idx' = 0
            /\ polled' = <<>>
            /\ clock' = PhasesOver(c)

\* the task starts, or asyncio.sleep(60) returns: the next pass of `while True`
CycleStart(maxCycles) ==
    /\ st_pc \in {"start", "sleep60"}
    /\ cycle < maxCycles
    /\ cycle' = cycle + 1
    /\ Enter("cf", {}, IF st_pc = "sleep60" THEN Restart(clock) ELSE clock)
    /\ UNCHANGED <<last_solved, st_sub_id, st_new, st_seen, st_cached, st_chat, attempts, runs,
                   firstFail, retried, notified, st_raised>>
    /\ UNCHANGED regVars
    /\ UNCHANGED fVars

\* asyncio.sleep(60) returns in a pass after the last one counted: `while True`
\* goes on, the count of passes stays at maxCycles
CycleAgain(maxCycles) ==
    /\ st_pc = "sleep60"
    /\ cycle = maxCycles
    /\ Enter("cf", {}, Restart(clock))
    /\ UNCHANGED <<last_solved, st_sub_id, st_new, st_seen, st_cached, st_chat, attempts, runs,
                   firstFail, retried, notified, st_raised, cycle>>
    /\ UNCHANGED regVars
    /\ UNCHANGED fVars

\* the run of polls that returned the same accepted sub_id, after one more poll
NextRun(run, c) ==
    IF c.accepted = NoneVal THEN run
    ELSE LET sends == IF c.kind = "new" THEN 1 ELSE 0
         IN  IF run.id = c.accepted
             THEN [id |-> run.id,
                   polls |-> IF run.polls < 2 THEN run.polls + 1 ELSE 2,
                   sent |-> IF run.sent + sends < 2 THEN run.sent + sends ELSE 2]
             ELSE [id |-> c.accepted, polls |-> 1, sent |-> sends]

\* the per-handle try without its except: the exception leaves stalker_logic
AfterRaiseUncaught == "dead"

\* asyncio.sleep(0.5) inside the try: an exception skips the pause
AfterRaiseSkipsPause == "fetch"

\* `except Exception:` of the per-handle try (lines 217-218, 254-255): the
\* exception is logged and the handle ends at asyncio.sleep(0.5) like any other
AfterRaise == "sleep05"

\* safe_get_json returns res for the handle at st_idx
PollReturn(res) ==
    LET handle == handle_to_chats[st_idx].k
        c == Classify(st_judge, res, Get(last_solved[st_judge], handle))
        other == /\ firstFail # NoneVal
                 /\ firstFail.judge = st_judge /\ firstFail.handle = handle
                 /\ c.accepted # NoneVal /\ c.accepted # firstFail.sub_id
    IN  /\ st_pc = "fetch"
        /\ st_sub_id' = c.accepted
        /\ st_new' = (c.accepted # NoneVal /\ c.kind \in {"new", "raise"})
        /\ st_seen' = AcceptedId(st_judge, res)
        /\ st_cached' = Get(last_solved[st_judge], handle)
        /\ st_raised' = (c.kind = "raise")
        /\ \E d \in FetchTicks(clock) : clock' = Tick(clock, d)
        /\ runs' = [runs EXCEPT ![st_judge][handle] = NextRun(runs[st_judge][handle], c)]
        /\ firstFail' = IF other THEN [firstFail EXCEPT !.clean = FALSE] ELSE firstFail
        /\ IF c.kind = "new"
           THEN /\ st_pc' = "send"
                /\ st_chat' = 1
           ELSE /\ st_pc' = (IF c.kind = "raise" THEN AfterRaise ELSE "sleep05")
                /\ st_chat' = 0
        /\ last_solved' = IF c.kind = "nothing"
                          THEN [last_solved EXCEPT ![st_judge] =
                                   OnNoResult(last_solved[st_judge], handle)]
                          ELSE last_solved
        /\ UNCHANGED <<st_judge, handle_to_chats, st_idx, attempts, polled, gated,
                       cycle, retried, notified, snap>>
        /\ UNCHANGED regVars
        /\ UNCHANGED fVars

\* the loop without the inner try/except: a failed send ends the fan-out
AfterSendStopOnError(chats, i, ok) == IF ok /\ i < Len(chats) THEN "next" ELSE "done"

\* `for chat_str in chats:` with the try/except around send_message (lines 209-213):
\* whatever the send did, the loop goes on while chats are left
AfterSend(chats, i, ok) == IF i < Len(chats) THEN "next" ELSE "done"

\* a handler that drops the chat that could not be reached from the registry
PruneChat(reg, p, chat_str) ==
    [reg EXCEPT ![p] = SelectSeq(reg[p], LAMBDA e : e.k # chat_str)]

\* `except Exception: logging.exception(...)` around send_message (lines
\* 212-213, 249-250): the registry after a failed delivery
OnSendFailure(reg, p, chat_str) == reg

\* bot.send_message(int(chat_str), ...) returns (ok) or raises (~ok)
SendReturn(ok, watch) ==
    LET handle == handle_to_chats[st_idx].k
        chats == handle_to_chats[st_idx].v
        chat == IntOf(chats[st_chat])
        again == /\ firstFail # NoneVal
                 /\ firstFail.judge = st_judge /\ firstFail.handle = handle
                 /\ firstFail.sub_id = st_sub_id /\ firstFail.chat = chat
                 /\ firstFail.cycle < cycle
    IN  /\ st_pc = "send"
        /\ attempts' = Append(attempts, [chat |-> chat, ok |-> ok])
        /\ notified' = IF watch /\ ok THEN notified \cup {<<st_judge, handle>>} ELSE notified
        /\ STALK_LIST' = IF ok THEN STALK_LIST
                          ELSE OnSendFailure(STALK_LIST, st_judge, chats[st_chat])
        /\ firstFail' = IF watch /\ ~ok /\ firstFail = NoneVal
                        THEN [judge |-> st_judge, handle |-> handle, sub_id |-> st_sub_id,
                              chat |-> chat, cycle |-> cycle, clean |-> TRUE]
                        ELSE firstFail
        /\ retried' = IF again /\ retried = "no"
                      THEN (IF firstFail.clean THEN "same_run" ELSE "after_other")
                      ELSE retried
        /\ IF AfterSend(chats, st_chat, ok) = "next"
           THEN /\ st_chat' = st_chat + 1
                /\ UNCHANGED <<st_pc, last_solved>>
           ELSE /\ st_chat' = 0
                /\ st_pc' = "sleep05"
                /\ last_solved' = [last_solved EXCEPT ![st_judge] =
                                      CacheUpdate(last_solved[st_judge], handle, st_sub_id)]
        /\ \E d \in SendTicks(clock) : clock' = Tick(clock, d)
        /\ UNCHANGED <<st_judge, handle_to_chats, st_idx, st_sub_id, st_new, st_seen, st_cached,
                       polled, gated, cycle, runs, st_raised, snap>>
        /\ UNCHANGED <<stalking_active, calls, ncmd, USER_NICKS, disk, tasks>>
        /\ UNCHANGED fVars

\* a for loop that looks at the toggle again before each handle
MoreHandlesWhileOn(idx, i, active, p) == i < Len(idx) /\ active[p]

\* `for handle, chats in handle_to_chats.items():` (lines 190, 227) has a next
\* handle; the toggle is not read again
MoreHandles(idx, i, active, p) == i < Len(idx)

\* asyncio.sleep(0.5) returns: the next handle, or the next phase
HandleDone ==
    /\ st_pc = "sleep05"
    /\ attempts' = <<>>
    /\ st_sub_id' = NoneVal
    /\ st_new' = FALSE
    /\ st_seen' = NoneVal
    /\ st_cached' = NoneVal
    /\ st_raised' = FALSE
    /\ IF MoreHandles(handle_to_chats, st_idx, stalking_active, st_judge)
       THEN /\ st_pc' = "fetch"
            /\ st_idx' = st_idx + 1
            /\ polled' = Append(polled, handle_to_chats[st_idx + 1].k)
            /\ clock' = Tick(clock, PauseTicks)
            /\ UNCHANGED <<st_judge, handle_to_chats, gated, snap>>
       ELSE Enter(IF st_judge = "cf" THEN "ac" ELSE "end", gated, Tick(clock, PauseTicks))
    /\ UNCHANGED <<last_solved, st_chat, cycle, runs, firstFail, retried, notified>>
    /\ UNCHANGED regVars
    /\ UNCHANGED fVars

\* stalker_task.cancel() in main's finally: CancelledError is raised at the
\* await the task is suspended at; it is no Exception, so no except clause of
\* stalker_logic catches it
Cancel ==
    /\ st_pc \in {"start", "fetch", "send", "sleep05", "sleep60"}
    /\ st_pc' = "cancelled"
    /\ UNCHANGED <<last_solved, st_judge, handle_to_chats, st_idx, st_sub_id, st_new, st_seen,
                   st_cached, st_chat, attempts, polled, gated, cycle, runs, firstFail, retried,
                   notified, st_raised, snap, clock>>
    /\ UNCHANGED regVars
    /\ UNCHANGED fVars

-----------------------------------------------------------------------------
(* Command handlers running between the stalker's awaits *)

CmdFrame ==
    /\ st_pc = "sleep60" => cycle < MaxCycles
    /\ ncmd < MaxCmds
    /\ ncmd' = IF \/ STALK_LIST' # STALK_LIST
                  \/ stalking_active' # stalking_active
                  \/ USER_NICKS' # USER_NICKS
               THEN ncmd + 1 ELSE ncmd
    /\ UNCHANGED <<calls, tasks>>
    /\ UNCHANGED stVars
    /\ UNCHANGED fVars

\* cf_follow_cmd / ac_follow_cmd
FollowCmd(chat_id, platform, handle) ==
    /\ FollowCall(chat_id, platform, handle)
    /\ UNCHANGED <<stalking_active, USER_NICKS>>
    /\ CmdFrame

\* cf_unfollow_cmd / ac_unfollow_cmd
UnfollowCmd(chat_id, platform, handle) ==
    /\ UnfollowCall(chat_id, platform, handle)
    /\ UNCHANGED <<stalking_active, USER_NICKS>>
    /\ CmdFrame

\* cf_stalk_on_cmd / cf_stalk_off_cmd / ac_stalk_on_cmd / ac_stalk_off_cmd
StalkToggle(active, platform, value) == [active EXCEPT ![platform] = value]

ToggleCmd(platform, value) ==
    /\ stalking_active' = StalkToggle(stalking_active, platform, value)
    /\ UNCHANGED <<STALK_LIST, USER_NICKS, disk>>
    /\ CmdFrame

\* set_me_cmd: /set_me cf nick, /set_me ac nick, /set_me nick
SetNickCmd(user_id, platform, nick) ==
    /\ \E o \in SaveOutcomes(disk) :
          LET r == SetNickResult(disk, USER_NICKS, STALK_LIST, user_id, platform, nick, o)
          IN  USER_NICKS' = r.nicks /\ disk' = r.disk
    /\ UNCHANGED <<STALK_LIST, stalking_active>>
    /\ CmdFrame

-----------------------------------------------------------------------------
(* Command handlers as tasks of the event loop *)

\* add_stalk with an await between `handle not in mapping[k]` and the append
SuspendsAfterTest == TRUE

\* add_stalk is a plain `def` (lines 131-139): the event loop cannot run
\* another task between its membership test and its append
SuspendsInAddStalk == FALSE

Task(op, chat_id, platform, handle) ==
    [op |-> op, chat_id |-> chat_id, platform |-> platform, handle |-> handle,
     pc |-> "ready", tested |-> FALSE, ret |-> NoneVal]

TaskFrame ==
    /\ UNCHANGED <<stalking_active, calls, ncmd, USER_NICKS>>
    /\ UNCHANGED stVars
    /\ UNCHANGED fVars

\* dp.start_polling receives a /cf_follow or /cf_unfollow update and creates
\* the task of its handler
TaskArrive(op, chat_id, platform, handle) ==
    /\ Len(tasks) < MaxTasks
    /\ st_pc = "sleep60" => cycle < MaxTaskCycles
    /\ tasks' = Append(tasks, Task(op, chat_id, platform, handle))
    /\ UNCHANGED <<STALK_LIST, disk>>
    /\ TaskFrame

\* the event loop runs the task of a handler up to its next await: from its
\* start through add_stalk / remove_stalk to `await message.reply` (lines
\* 531-539, 542-550); get_handle_or_ask returns the handle given with the
\* command without suspending (lines 160-163)
TaskRun(t) ==
    LET x == tasks[t]
        m == Mapping(x.platform)
        k == StrOf(x.chat_id)
        d == SetDefault(STALK_LIST[m], k, <<>>)
    IN  /\ x.pc \in {"ready", "tested"}
        /\ \E o \in SaveOutcomes(disk) :
              IF x.op = "follow" /\ SuspendsInAddStalk
              THEN IF x.pc = "ready"
                   THEN /\ STALK_LIST' = [STALK_LIST EXCEPT ![m] = d]
                        /\ tasks' = [tasks EXCEPT
                                        ![t].pc = "tested",
                                        ![t].tested = x.handle \notin Range(Lookup(d, k))]
                        /\ UNCHANGED disk
                   ELSE IF x.tested
                   THEN LET r == add_stalk_unchecked(STALK_LIST, x.chat_id, x.platform,
                                                     x.handle)
                            saved == save_all(disk, Data(USER_NICKS, r.reg), o)
                        IN  /\ STALK_LIST' = r.reg
                            /\ disk' = saved.disk
                            /\ tasks' = [tasks EXCEPT
                                            ![t].pc = "reply",
                                            ![t].ret = Returned([bool |-> TRUE], saved)]
                   ELSE /\ tasks' = [tasks EXCEPT ![t].pc = "reply",
                                                  ![t].ret = [bool |-> FALSE]]
                        /\ UNCHANGED <<STALK_LIST, disk>>
              ELSE LET r == IF x.op = "follow"
                            THEN FollowResult(disk, USER_NICKS, STALK_LIST, x.chat_id,
                                              x.platform, x.handle, o)
                            ELSE UnfollowResult(disk, USER_NICKS, STALK_LIST, x.chat_id,
                                                x.platform, x.handle, o)
                   IN  /\ STALK_LIST' = r.reg
                       /\ disk' = r.disk
                       /\ tasks' = [tasks EXCEPT ![t].pc = "reply", ![t].ret = r.ret]
        /\ TaskFrame

\* message.reply returns and the handler ends
TaskReplyDone(t) ==
    /\ tasks[t].pc = "reply"
    /\ tasks' = [tasks EXCEPT ![t].pc = "done"]
    /\ UNCHANGED <<STALK_LIST, disk>>
    /\ TaskFrame

-----------------------------------------------------------------------------
(* Specifications *)

\* no data.json: load_data returns the defaults (line 32)
NoDataFile == [p \in Platforms |-> <<>>]

\* a data.json written by an earlier run: both chats follow alice on both judges
LoadedDataFile ==
    [p \in Platforms |->
        IF p = "cf"
        THEN <<[k |-> "100", v |-> <<"alice">>], [k |-> "200", v |-> <<"alice">>]>>
        ELSE <<[k |-> "200", v |-> <<"alice">>], [k |-> "100", v |-> <<"alice">>]>>]

InitRegistryOn(file, d) ==
    /\ STALK_LIST = file
    /\ stalking_active = [p \in Platforms |-> TRUE]
    /\ calls = <<NoCall, NoCall>>
    /\ ncmd = 0
    /\ USER_NICKS = <<>>
    /\ disk = d
    /\ tasks = <<>>

\* the runs that do not watch data.json
InitRegistry(file) == InitRegistryOn(file, DiskOff)

InitStalkerTimed(c) ==
    /\ last_solved = [p \in Platforms |-> [h \in Handles |-> NoneVal]]
    /\ st_pc = "start"
    /\ st_judge = "none"
    /\ handle_to_chats = <<>>
    /\ st_idx = 0
    /\ st_sub_id = NoneVal
    /\ st_new = FALSE
    /\ st_seen = NoneVal
    /\ st_cached = NoneVal
    /\ st_chat = 0
    /\ attempts = <<>>
    /\ polled = <<>>
    /\ gated = {}
    /\ cycle = 0
    /\ runs = [p \in Platforms |-> [h \in Handles |-> [id |-> NoneVal, polls |-> 0, sent |-> 0]]]
    /\ firstFail = NoneVal
    /\ retried = "no"
    /\ notified = {}
    /\ st_raised = FALSE
    /\ snap = <<>>
    /\ clock = c

\* the runs that do not keep time
InitStalker == InitStalkerTimed(ClockOff)

InitFetch ==
    /\ f_pc = "idle"
    /\ f_retries = 0
    /\ f_delay = 0
    /\ attempt = 0
    /\ backoff = 0
    /\ f_sleeps = <<>>
    /\ f_tries = 0
    /\ f_body = "none"
    /\ f_result = Missing
    /\ f_how = "none"

Init == InitRegistry(NoDataFile) /\ InitStalker /\ InitFetch

\* the stalker with the command handlers
Next ==
    \/ CycleStart(MaxCycles)
    \/ \E res \in Responses(st_judge) : PollReturn(res)
    \/ \E ok \in BOOLEAN : SendReturn(ok, FALSE)
    \/ HandleDone
    \/ \E c \in ChatIds, p \in Platforms, h \in Handles : FollowCmd(c, p, h)
    \/ \E c \in ChatIds, p \in Platforms, h \in Handles : UnfollowCmd(c, p, h)
    \/ \E p \in Platforms, v \in BOOLEAN : ToggleCmd(p, v)
    \/ \E u \in ChatIds, p \in NickPlatforms, n \in Handles : SetNickCmd(u, p, n)

Spec == Init /\ [][Next]_vars

\* the stalker alone on a loaded data file, deliveries watched across passes
InitLoaded == InitRegistry(LoadedDataFile) /\ InitStalker /\ InitFetch

NextLoaded ==
    \/ CycleStart(MaxLoadedCycles)
    \/ \E res \in Responses(st_judge) : PollReturn(res)
    \/ \E ok \in BOOLEAN : SendReturn(ok, TRUE)
    \/ HandleDone

SpecLoaded == InitLoaded /\ [][NextLoaded]_vars

\* a data.json written by an earlier run: chat 100 follows alice and bob on CF
\* and alice on AtCoder, chat 200 follows alice on CF
TrackedDataFile ==
    [p \in Platforms |->
        IF p = "cf"
        THEN <<[k |-> "100", v |-> <<"alice", "bob">>], [k |-> "200", v |-> <<"alice">>]>>
        ELSE <<[k |-> "100", v |-> <<"alice">>]>>]

InitTracked == InitRegistry(TrackedDataFile) /\ InitStalker /\ InitFetch

\* the stalker alone, from start-up until main cancels it
NextStalker ==
    \/ CycleStart(MaxTrackedCycles)
    \/ \E res \in Responses(st_judge) : PollReturn(res)
    \/ \E ok \in BOOLEAN : SendReturn(ok, TRUE)
    \/ HandleDone
    \/ Cancel

SpecStalker == InitTracked /\ [][NextStalker]_vars

\* the stalker with the toggle commands
NextToggle ==
    \/ CycleStart(MaxCycles)
    \/ \E res \in Responses(st_judge) : PollReturn(res)
    \/ \E ok \in BOOLEAN : SendReturn(ok, FALSE)
    \/ HandleDone
    \/ \E p \in Platforms, v \in BOOLEAN : ToggleCmd(p, v)

SpecToggle == InitTracked /\ [][NextToggle]_vars

\* the stalker alone on a loaded data file, with the time its awaits take
InitClock == InitRegistry(LoadedDataFile) /\ InitStalkerTimed(ClockOn) /\ InitFetch

NextClock ==
    \/ CycleStart(MaxCycles)
    \/ \E res \in Responses(st_judge) : PollReturn(res)
    \/ \E ok \in BOOLEAN : SendReturn(ok, FALSE)
    \/ HandleDone

SpecClock == InitClock /\ [][NextClock]_vars

\* the stalker with chat 100 following and unfollowing CF handles and the CF
\* toggle commands
NextRefollow ==
    \/ CycleStart(MaxCycles)
    \/ \E res \in Responses(st_judge) : PollReturn(res)
    \/ \E ok \in BOOLEAN : SendReturn(ok, FALSE)
    \/ HandleDone
    \/ \E h \in Handles : FollowCmd(100, "cf", h)
    \/ \E h \in Handles : UnfollowCmd(100, "cf", h)
    \/ \E v \in BOOLEAN : ToggleCmd("cf", v)

SpecRefollow == InitTracked /\ [][NextRefollow]_vars

\* the registry alone
NextRegistry ==
    \/ \E c \in ChatIds, p \in Platforms, h \in Handles : RegFollow(c, p, h)
    \/ \E c \in ChatIds, p \in Platforms, h \in Handles : RegUnfollow(c, p, h)
    \/ \E c \in ChatIds, p \in Platforms : RegList(c, p)

SpecRegistry == Init /\ [][NextRegistry]_vars

\* the registry and the nicknames with data.json, loaded from a file written
\* by an earlier run
InitPersist ==
    /\ InitRegistryOn(TrackedDataFile, DiskOn(Data(<<>>, TrackedDataFile)))
    /\ InitStalker
    /\ InitFetch

NextPersist ==
    \/ \E c \in ChatIds, p \in Platforms, h \in Handles : RegFollow(c, p, h)
    \/ \E c \in ChatIds, p \in Platforms, h \in Handles : RegUnfollow(c, p, h)
    \/ \E p \in NickPlatforms, n \in Handles : RegSetNick(100, p, n)

SpecPersist == InitPersist /\ [][NextPersist]_vars

\* the stalker with the handler tasks of the CF follow and unfollow commands
\* of chat 100
NextTasks ==
    \/ CycleStart(MaxTaskCycles)
    \/ \E res \in Responses(st_judge) : PollReturn(res)
    \/ \E ok \in BOOLEAN : SendReturn(ok, FALSE)
    \/ HandleDone
    \/ \E op \in {"follow", "unfollow"}, h \in Handles : TaskArrive(op, 100, "cf", h)
    \/ \E t \in DOMAIN tasks : TaskRun(t)
    \/ \E t \in DOMAIN tasks : TaskReplyDone(t)

SpecTasks == Init /\ [][NextTasks]_vars

\* the stalker alone on a loaded data file, pass after pass without end
NextForever ==
    \/ CycleStart(MaxCycles)
    \/ CycleAgain(MaxCycles)
    \/ \E res \in Responses(st_judge) : PollReturn(res)
    \/ \E ok \in BOOLEAN : SendReturn(ok, FALSE)
    \/ HandleDone

\* the await the stalker is suspended at returns: safe_get_json is bounded by
\* its retries and the request timeout, asyncio.sleep by its argument, and
\* send_message returns or raises; main does not cancel the task. The task is
\* suspended at one await at a time, so this is fairness of its next step.
SpecForever == InitLoaded /\ [][NextForever]_vars /\ WF_vars(NextForever)

\* the fetch client alone
NextFetch ==
    \/ \E r \in 0..MaxRetries, d \in 1..MaxDelay : FetchCall(r, d)
    \/ \E o \in Outcomes : FetchAttempt(o)
    \/ FetchSleepDone
    \/ FetchDone

SpecFetch == Init /\ [][NextFetch]_vars

\* every await of the client returns: the request is bounded by REQUEST_TIMEOUT
\* and asyncio.sleep by its argument
SpecFetchFair ==
    /\ Init
    /\ [][NextFetch]_vars
    /\ WF_vars(\E o \in Outcomes : FetchAttempt(o))
    /\ WF_vars(FetchSleepDone)

-----------------------------------------------------------------------------
(* Claims about the fetch client *)

AllFailed == f_pc = "returned" /\ f_how # "json"

BackoffShape ==
    /\ f_tries <= f_retries
    /\ AllFailed =>
        /\ f_result = NoneVal
        /\ f_tries = f_retries
        /\ Len(f_sleeps) = (IF f_retries = 0 THEN 0 ELSE f_retries - 1)
        /\ \A i \in DOMAIN f_sleeps :
              f_sleeps[i] = (IF i = 1 THEN f_delay ELSE 2 * f_sleeps[i - 1])

\* C8: a fetch whose every attempt fails ends, returns the failure value after
\* exactly `retries` attempts and never makes another one; the first wait is
\* `delay` and each later wait is twice the one before.
BackoffTermination ==
    /\ []BackoffShape
    /\ (f_pc \in {"request", "sleeping"}) ~> (f_pc = "returned")

BackoffWitness ==
    /\ f_pc = "returned" /\ f_how = "failure"
    /\ f_retries = 3 /\ f_tries = 3 /\ f_sleeps = <<2, 4>>

\* C9 as stated: the value returned on failure differs from the value a
\* successfully fetched JSON null parses to.
FailureDistinctFromNull ==
    (f_pc = "returned" /\ f_how = "failure") => f_result # ParseJson("null")

\* C9 as amended: the value returned on failure is None, the very value a
\* fetched JSON null parses to, and differs from every other parsed body.
FailureIsNone ==
    f_pc = "returned" =>
        /\ f_how # "json" => f_result = ParseJson("null")
        /\ (f_how = "json" /\ f_body # "null") => f_result # FailureValue

FailureWitness ==
    /\ f_pc = "returned" /\ f_how = "failure" /\ f_tries = 3
    /\ f_result = ParseJson("null")

\* C10: whatever each attempt does and whatever `retries` is, the call never
\* raises: it returns the parsed body of the first attempt that succeeds, with
\* no attempt after it, or the failure value.
NeverRaises ==
    /\ f_pc # "raised"
    /\ f_pc = "returned" =>
          \/ f_how = "json" /\ f_result = ParseJson(f_body)
          \/ f_how \in {"failure", "fallthrough"} /\ f_result = NoneVal
    /\ f_how = "json" =>
          /\ f_pc \in {"returned", "idle"}
          /\ f_tries = Len(f_sleeps) + 1
          /\ f_tries <= f_retries

SuccessOnSecondAttempt ==
    /\ f_pc = "returned" /\ f_how = "json" /\ f_tries = 2 /\ f_retries = 3
    /\ f_result = PyList(<<1>>)

-----------------------------------------------------------------------------
(* Claims about the registry *)

Tracking(d, h) == {c \in ChatIds : HasKey(d, StrOf(c)) /\ h \in Range(Lookup(d, StrOf(c)))}

RevIndexOK(idx, d) ==
    /\ \A i, j \in DOMAIN idx : idx[i].k = idx[j].k => i = j
    /\ \A h \in Handles :
          IF Tracking(d, h) = {}
          THEN ~HasKey(idx, h)
          ELSE /\ HasKey(idx, h)
               /\ {IntOf(x) : x \in Range(Lookup(idx, h))} = Tracking(d, h)
               /\ NoDup(Lookup(idx, h))

\* C5: the reverse index built from a registry maps each handle to exactly the
\* chats whose list holds it, each once, and has no entry for a handle that no
\* chat tracks.
ReverseIndexCorrect == \A p \in Platforms : RevIndexOK(BuildIndex(STALK_LIST[p]), STALK_LIST[p])

ReverseIndexWitness ==
    /\ STALK_LIST["cf"] = <<[k |-> "100", v |-> <<"alice", "bob">>], [k |-> "200", v |-> <<"bob">>]>>
    /\ BuildIndex(STALK_LIST["cf"]) =
          <<[k |-> "alice", v |-> <<"100">>], [k |-> "bob", v |-> <<"100", "200">>]>>

SameCall(a, b) ==
    /\ a.name = b.name /\ a.chat_id = b.chat_id
    /\ a.platform = b.platform /\ a.handle = b.handle

CallStep(name) == ncmd' = ncmd + 1 /\ calls'[2].name = name

\* C6: follow returns true exactly when the handle was not in the chat's list,
\* the handle is in the list afterwards (appended when it was new), and the
\* same follow made again at once returns false and changes nothing.
FollowIdempotent ==
    [][CallStep("follow") =>
        LET c == calls'[2]
            was == list_stalks(STALK_LIST, c.chat_id, c.platform)
            now == list_stalks(STALK_LIST', c.chat_id, c.platform)
        IN  /\ c.ret.bool = (c.handle \notin Range(was))
            /\ c.handle \in Range(now)
            /\ c.ret.bool => now = Append(was, c.handle)
            /\ SameCall(calls[2], c) => (~c.ret.bool /\ STALK_LIST' = STALK_LIST)]_vars

FollowTwiceWitness ==
    /\ calls[1].name = "follow" /\ SameCall(calls[1], calls[2])
    /\ calls[1].ret = [bool |-> TRUE] /\ calls[2].ret = [bool |-> FALSE]

\* C7: unfollow returns true exactly when the handle was in the chat's list and
\* then the list no longer holds it; otherwise (handle or chat not there) it
\* returns false and changes nothing; unfollow right after the follow that put
\* the handle into an empty list leaves the list empty.
UnfollowContract ==
    [][CallStep("unfollow") =>
        LET c == calls'[2]
            was == list_stalks(STALK_LIST, c.chat_id, c.platform)
            now == list_stalks(STALK_LIST', c.chat_id, c.platform)
        IN  /\ c.ret.bool = (c.handle \in Range(was))
            /\ c.ret.bool => c.handle \notin Range(now)
            /\ ~c.ret.bool => STALK_LIST' = STALK_LIST
            /\ ( /\ calls[2].name = "follow" /\ calls[2].ret = [bool |-> TRUE]
                 /\ calls[2].chat_id = c.chat_id /\ calls[2].platform = c.platform
                 /\ calls[2].handle = c.handle /\ Len(was) = 1 ) => now = <<>>]_vars

FollowUnfollowWitness ==
    /\ ncmd = 2
    /\ calls[1].name = "follow" /\ calls[1].ret = [bool |-> TRUE]
    /\ calls[2].name = "unfollow" /\ calls[2].ret = [bool |-> TRUE]
    /\ calls[1].chat_id = calls[2].chat_id /\ calls[1].platform = calls[2].platform
    /\ calls[1].handle = calls[2].handle
    /\ list_stalks(STALK_LIST, calls[2].chat_id, calls[2].platform) = <<>>

-----------------------------------------------------------------------------
(* Claims about the stalker *)

CurrentHandle == handle_to_chats[st_idx].k
CurrentChats == handle_to_chats[st_idx].v
AttemptChats == [i \in DOMAIN attempts |-> attempts[i].chat]
ChatsAsInts(chats) == [i \in DOMAIN chats |-> IntOf(chats[i])]

\* C1: while the polls of a handle keep returning the same accepted submission,
\* with no other accepted submission in between, at most one of those cycles
\* sends notifications for it, and a fan-out never sends to a chat twice,
\* whatever commands run in between.
IdempotentNotification ==
    /\ \A p \in Platforms, h \in Handles : runs[p][h].sent <= 1
    /\ NoDup(AttemptChats)

IdempotentWitness ==
    /\ cycle = 2 /\ st_pc = "sleep05" /\ ~st_new /\ ncmd = 2
    /\ st_sub_id # NoneVal
    /\ runs[st_judge][CurrentHandle] = [id |-> st_sub_id, polls |-> 2, sent |-> 1]
    /\ last_solved[st_judge][CurrentHandle] = st_sub_id

\* C2 as stated: once the handle whose poll returned an accepted submission
\* with an identifier other than the cached one has been processed, every chat
\* of its reverse-index entry has had exactly one delivery attempt and the
\* cache holds that identifier.
NewSolveDelivered ==
    (st_pc = "sleep05" /\ st_new) =>
        /\ AttemptChats = ChatsAsInts(CurrentChats)
        /\ last_solved[st_judge][CurrentHandle] = st_sub_id

\* the fan-out so far has gone through the chats of the entry in order, one
\* attempt each, and when it is over the cache holds the new identifier
FanOutComplete ==
    /\ st_pc = "send" =>
          /\ Len(attempts) = st_chat - 1
          /\ \A i \in DOMAIN attempts : attempts[i].chat = IntOf(CurrentChats[i])
    /\ (st_pc = "sleep05" /\ attempts # <<>>) =>
          /\ AttemptChats = ChatsAsInts(CurrentChats)
          /\ last_solved[st_judge][CurrentHandle] = st_sub_id

\* C3 as stated: a failed delivery stops neither the other deliveries nor the
\* cache update, and the chat it failed for is never sent that submission in a
\* later cycle.
FailedChatNeverSentAgain == FanOutComplete /\ retried = "no"

\* C3 as amended: a failed delivery stops neither the other deliveries nor the
\* cache update, and the chat it failed for is not sent that submission in a
\* later cycle unless a different accepted submission of the handle was polled
\* in between.
FailedChatNotRetried == FanOutComplete /\ retried # "same_run"

FailedChatWitness ==
    /\ firstFail # NoneVal /\ firstFail.clean /\ firstFail.cycle = 1 /\ cycle = 2
    /\ st_pc = "sleep05" /\ ~st_new /\ retried = "no"
    /\ st_judge = firstFail.judge /\ CurrentHandle = firstFail.handle
    /\ st_sub_id = firstFail.sub_id
    /\ last_solved[st_judge][CurrentHandle] = firstFail.sub_id

FetchIssued(p) == st_pc # "fetch" /\ st_pc' = "fetch" /\ st_judge' = p

\* C4 as stated: while a judge's toggle is off no fetch is issued for its
\* handles and its cache is not updated.
ToggleOffFreezes ==
    [][\A p \in Platforms :
          ~stalking_active[p] => (~FetchIssued(p) /\ last_solved'[p] = last_solved[p])]_vars

\* C4 as amended: a fetch for a judge's handle or an update of its cache
\* happens only in a phase of that judge that started with the toggle on; a
\* phase reached with the toggle off is skipped whole, in every cycle.
ToggleGatesPhaseStart ==
    [][\A p \in Platforms :
          (FetchIssued(p) \/ last_solved'[p] # last_solved[p])
              => (st_judge = p \/ stalking_active[p])]_vars

ToggleSkipWitness ==
    /\ cycle = 2 /\ st_pc = "sleep60" /\ "cf" \in gated
    /\ ~stalking_active["cf"]
    /\ STALK_LIST["cf"] = <<[k |-> "100", v |-> <<"alice">>]>>
    /\ last_solved["cf"]["alice"] = NoneVal /\ runs["cf"]["alice"].polls = 0

-----------------------------------------------------------------------------
(* Claims about the registry, continued *)

\* C14: from a registry without duplicates, whatever follow and unfollow calls
\* are made, no chat's list of a judge holds the same handle twice.
NoDuplicateHandles ==
    \A p \in Platforms : \A i \in DOMAIN STALK_LIST[p] : NoDup(STALK_LIST[p][i].v)

NoDuplicateWitness ==
    /\ ncmd = 3
    /\ calls[1] = Call("follow", 100, "cf", "bob", [bool |-> TRUE])
    /\ calls[2] = Call("follow", 100, "cf", "alice", [bool |-> FALSE])
    /\ list_stalks(STALK_LIST, 100, "cf") = <<"alice", "bob">>

-----------------------------------------------------------------------------
(* Claims about the cache last_solved_cf / last_solved_ac *)

\* C11: every step that creates or changes an entry of last_solved writes it
\* for the handle being processed, and writes the identifier of the submission
\* that the poll of this handle just returned with the accepted verdict; after
\* a poll that failed, was empty or was not accepted no entry changes.
LastSeenAcceptedOnly ==
    [][\A p \in Platforms, h \in Handles :
          last_solved'[p][h] # last_solved[p][h]
              => /\ p = st_judge /\ h = CurrentHandle
                 /\ st_seen # NoneVal
                 /\ last_solved'[p][h] = st_seen]_vars

LastSeenAcceptedWitness ==
    /\ cycle = 2 /\ st_pc = "sleep05" /\ st_judge = "cf"
    /\ st_seen = NoneVal /\ attempts = <<>>
    /\ last_solved["cf"][CurrentHandle] = [id |-> 1]
    /\ last_solved["ac"]["alice"] = CompositeId(AcOlder)

\* the fan-out of the handle being processed is over and line 214 / 251 has run
Updated == st_pc = "sleep05" /\ attempts # <<>>

\* a is the identifier of a submission older than the one b identifies (the
\* judges number their submissions in the order they receive them)
Older(a, b) == "id" \in DOMAIN a /\ "id" \in DOMAIN b /\ a.id < b.id

\* C12 as stated: an update never replaces the stored identifier by the
\* identifier of an older submission.
LastSeenMovesForward == Updated => ~Older(last_solved[st_judge][CurrentHandle], st_cached)

\* C12 as amended: every update replaces the stored identifier by a different
\* one, the identifier of the accepted submission the poll just made returned
\* as the most recent; which of the two is the older one is not looked at.
LastSeenReplacedByPolled ==
    Updated => /\ last_solved[st_judge][CurrentHandle] # st_cached
               /\ last_solved[st_judge][CurrentHandle] = st_seen

LastSeenForwardWitness ==
    /\ Updated /\ cycle = 2
    /\ st_cached = [id |-> 1] /\ last_solved[st_judge][CurrentHandle] = [id |-> 2]

\* C13 as stated: in every state, a handle without an entry in the cache has
\* had no notification delivered to any chat.
NoEntryMeansNeverNotified ==
    \A p \in Platforms, h \in Handles :
        last_solved[p][h] = NoneVal => <<p, h>> \notin notified

\* the stalker is inside the fan-out loop for handle h of judge p (or was
\* cancelled inside it): between the first send_message and line 214 / 251
InFanOut(p, h) ==
    /\ st_pc \in {"send", "cancelled"}
    /\ st_judge = p /\ st_idx > 0 /\ st_chat > 0
    /\ CurrentHandle = h

\* C13 as amended: a handle without an entry in the cache has had no
\* notification delivered, except while the fan-out of its first new
\* submission is in progress (or was cut short by the shutdown): the chats
\* earlier in the fan-out have been notified and the entry is written only
\* after the last delivery attempt.
NoEntryMeansNoFanOutDone ==
    \A p \in Platforms, h \in Handles :
        (last_solved[p][h] = NoneVal /\ <<p, h>> \in notified) => InFanOut(p, h)

NoEntryWitness ==
    /\ st_pc = "send" /\ st_judge = "cf" /\ CurrentHandle = "alice" /\ st_chat = 2
    /\ attempts = <<[chat |-> 100, ok |-> TRUE]>>
    /\ last_solved["cf"]["alice"] = NoneVal
    /\ <<"cf", "alice">> \in notified
    /\ last_solved["cf"]["bob"] = NoneVal /\ <<"cf", "bob">> \notin notified

\* safe_get_json has returned to the stalker
PollStep == st_pc = "fetch" /\ st_pc' \notin {"fetch", "cancelled"}

\* what it returned holds no accepted submission (fetch failure, empty result,
\* most recent submission not accepted) or the accepted one the cache holds
QuietPoll == st_seen' = NoneVal \/ st_seen' = last_solved[st_judge][CurrentHandle]

\* asyncio.sleep(0.5) has returned after a handle that sent nothing
QuietHandleDone == st_pc = "sleep05" /\ attempts = <<>> /\ st_pc' \notin {"sleep05", "cancelled"}

\* C16: a poll that brings no accepted submission, or the accepted submission
\* the cache already holds, sends nothing and leaves the cache as it is, and
\* after the pause the phase goes on with the next handle of the index.
QuietPollNoChange ==
    [][/\ (PollStep /\ QuietPoll)
            => /\ st_pc' = "sleep05" /\ attempts' = <<>>
               /\ last_solved' = last_solved /\ notified' = notified
       /\ QuietHandleDone
            => /\ last_solved' = last_solved /\ notified' = notified
               /\ st_idx < Len(handle_to_chats)
                    => /\ st_pc' = "fetch" /\ st_judge' = st_judge
                       /\ st_idx' = st_idx + 1]_vars

QuietPollWitness ==
    /\ cycle = 2 /\ st_pc = "sleep05" /\ st_judge = "cf" /\ CurrentHandle = "alice"
    /\ st_idx < Len(handle_to_chats)
    /\ st_seen = [id |-> 1] /\ st_cached = [id |-> 1] /\ attempts = <<>>
    /\ last_solved["cf"]["alice"] = [id |-> 1]
    /\ <<"cf", "alice">> \in notified

\* the handles some chat tracks on judge p
TrackedHandles(p) == {h \in Handles : Tracking(STALK_LIST[p], h) # {}}

\* the last handle of the phase in progress has been processed
PhaseOver == st_judge \in Platforms /\ st_pc = "sleep05" /\ st_idx = Len(handle_to_chats)

\* C17: in a phase no handle is polled twice, however many chats track it, and
\* when the phase is over every tracked handle of the judge has been polled:
\* one safe_get_json call per distinct handle.
PolledOncePerPhase ==
    /\ st_judge \in Platforms => NoDup(polled) /\ Range(polled) \subseteq TrackedHandles(st_judge)
    /\ PhaseOver => Range(polled) = TrackedHandles(st_judge) /\ Len(polled) = Cardinality(TrackedHandles(st_judge))

PolledOnceWitness ==
    /\ PhaseOver /\ st_judge = "cf"
    /\ Tracking(STALK_LIST["cf"], "alice") = {100, 200}
    /\ polled = <<"alice", "bob">>

\* where the loop is: at one of its awaits, or cancelled there
LoopAlive ==
    /\ st_pc \in {"start", "fetch", "send", "sleep05", "sleep60", "cancelled"}
    /\ st_pc = "sleep60" <=> (st_judge = "none" /\ cycle > 0 /\ st_pc # "cancelled")
    /\ st_pc = "fetch" => (attempts = <<>> /\ st_chat = 0)

\* the phases follow one another in the order CF, AC, pause, and a phase is
\* left only after the pause that follows its last handle
PhaseOrder ==
    st_judge' # st_judge =>
        \/ st_judge = "none" /\ st_pc \in {"start", "sleep60"} /\ cycle' = cycle + 1
        \/ st_judge = "cf" /\ PhaseOver /\ st_judge' \in {"ac", "none"} /\ cycle' = cycle
        \/ st_judge = "ac" /\ PhaseOver /\ st_judge' = "none" /\ st_pc' = "sleep60"
                           /\ cycle' = cycle

\* within a phase the handles are taken one by one, each after the pause that
\* ends the one before
OneAtATime ==
    (st_idx' # st_idx /\ st_judge' = st_judge /\ cycle' = cycle)
        => st_pc = "sleep05" /\ st_pc' = "fetch" /\ st_idx' = st_idx + 1

\* the loop stops only when main cancels the task
OnlyCancelled == (st_pc' = "cancelled" /\ st_pc # "cancelled") => (Cancel /\ UNCHANGED last_solved)

\* C18: each pass of the loop goes through the CF phase, then the AC phase, then
\* the pause; nothing of the AC phase happens before the last CF handle of the
\* pass has been processed; handles are processed one at a time; and the loop
\* ends only by cancellation.
PhaseOrdering == []LoopAlive /\ [][PhaseOrder /\ OneAtATime /\ OnlyCancelled]_vars

PhaseOrderWitness ==
    /\ cycle = 2 /\ st_judge = "ac" /\ st_pc = "cancelled" /\ st_chat = 1
    /\ polled = <<"alice">>
    /\ last_solved["cf"]["alice"] # NoneVal /\ last_solved["cf"]["bob"] # NoneVal
    /\ st_new /\ st_seen # last_solved["ac"]["alice"]

-----------------------------------------------------------------------------
(* Claims about the stalker and the commands that run between its awaits *)

\* the handles of the first n entries of an index, in iteration order
KeysUpTo(idx, n) == [i \in 1..n |-> idx[i].k]

\* a step that takes the stalker into a phase: its first handle is about to be polled
PhaseEntry == st_judge' \in Platforms /\ (st_judge' # st_judge \/ cycle' # cycle)

\* the polls and the deliveries of the phase in progress follow the index built
\* when the phase started
FollowsIndex ==
    st_judge \in Platforms =>
        /\ polled = KeysUpTo(handle_to_chats, st_idx)
        /\ NoDup(polled)
        /\ Len(attempts) <= Len(CurrentChats)
        /\ \A i \in DOMAIN attempts : attempts[i].chat = IntOf(CurrentChats[i])

\* C15: the handles a phase polls and the chats it notifies are those of the
\* index built from the registry when the phase started; a follow or unfollow
\* that runs later in the phase changes the registry and not that index, and
\* the next phase of the judge builds its index from the registry as it is then.
SnapshotIsolation ==
    /\ []FollowsIndex
    /\ [][/\ PhaseEntry => handle_to_chats' = BuildIndex(STALK_LIST[st_judge'])
          /\ (st_judge \in Platforms /\ ~PhaseEntry /\ st_judge' = st_judge)
                => handle_to_chats' = handle_to_chats]_vars

SnapshotWitness ==
    /\ st_judge = "cf" /\ st_pc = "sleep05" /\ st_idx = Len(handle_to_chats)
    /\ handle_to_chats = <<[k |-> "alice", v |-> <<"100">>]>>
    /\ polled = <<"alice">>
    /\ list_stalks(STALK_LIST, 100, "cf") = <<"alice", "bob">>

\* the pause after a handle is over and the index has more handles
NextHandleDue == st_pc = "sleep05" /\ st_pc' # "sleep05" /\ st_idx < Len(handle_to_chats)

\* a send_message call has returned and the fan-out has more chats
NextChatDue == st_pc = "send" /\ attempts' # attempts /\ st_chat < Len(CurrentChats)

\* a step that changes a toggle
ToggleStep == stalking_active' # stalking_active

\* C19: a toggle is read when the pass reaches the judge's phase and at no
\* other time: a phase is entered only at its place in the pass and only with
\* the toggle on at that moment; a toggle command changes nothing of the phase
\* in progress; whatever the toggle says, the phase goes on with its next chat
\* and its next handle; a skipped phase is not started later in the pass.
ToggleReadOnce ==
    [][/\ ToggleStep => UNCHANGED <<st_pc, st_judge, handle_to_chats, st_idx, st_chat, polled,
                                    attempts, gated, last_solved>>
       /\ NextHandleDue => (st_pc' = "fetch" /\ st_judge' = st_judge /\ st_idx' = st_idx + 1)
       /\ NextChatDue => (st_pc' = "send" /\ st_judge' = st_judge /\ st_chat' = st_chat + 1)
       /\ PhaseEntry =>
             /\ stalking_active[st_judge']
             /\ st_judge' = "cf" => (st_judge = "none" /\ cycle' = cycle + 1)
             /\ st_judge' = "ac" =>
                   \/ st_judge = "cf" /\ PhaseOver
                   \/ st_judge = "none" /\ cycle' = cycle + 1 /\ ~PhaseRuns("cf")]_vars

ToggleReadOnceWitness ==
    /\ cycle = 1 /\ "cf" \in gated /\ stalking_active["cf"]
    /\ st_judge = "ac" /\ st_pc = "sleep05" /\ polled = <<"alice">>
    /\ runs["cf"]["alice"].polls = 0 /\ runs["cf"]["bob"].polls = 0

\* stalker_logic has run from one await to the next
StalkerMoved == <<st_pc, st_judge, st_idx, st_chat, cycle, attempts, polled>>' #
                    <<st_pc, st_judge, st_idx, st_chat, cycle, attempts, polled>>

\* a command handler has changed what it owns
CommandChanged == <<STALK_LIST, stalking_active, USER_NICKS>>' #
                      <<STALK_LIST, stalking_active, USER_NICKS>>

\* C20: a step of the stalker leaves both tracked-handle registries, both
\* toggles (and the stored nicknames) as they are, and a command that changes
\* the registry, a toggle or a nickname leaves both caches as they are.
OwnershipFrame ==
    [][/\ StalkerMoved => UNCHANGED <<STALK_LIST, stalking_active, USER_NICKS>>
       /\ CommandChanged => UNCHANGED last_solved
       /\ last_solved' # last_solved => StalkerMoved]_vars

OwnershipWitness ==
    /\ st_pc = "sleep05" /\ st_judge = "cf" /\ CurrentHandle = "alice"
    /\ attempts = <<[chat |-> 100, ok |-> FALSE]>>
    /\ last_solved["cf"]["alice"] = [id |-> 1]
    /\ STALK_LIST["cf"] = <<[k |-> "100", v |-> <<"alice">>]>>
    /\ USER_NICKS = <<[k |-> "100", v |-> [cf |-> Nick("alice"), ac |-> NoneVal]]>>
    /\ stalking_active = [p \in Platforms |-> TRUE]

-----------------------------------------------------------------------------
(* Claims about errors in the stalker *)

\* asyncio.sleep(0.5) has returned after a handle whose processing raised
RaisedHandleDone == st_pc = "sleep05" /\ st_raised /\ st_pc' \notin {"sleep05", "cancelled"}

\* C27: when processing the poll result of a handle raises, no notification is
\* sent and the cache is left as it is, the stalker still pauses at
\* asyncio.sleep(0.5), and after the pause it goes on with the next handle of
\* the phase, or with the next phase, or with the sleep that ends the pass.
ErrorContained ==
    [][/\ (st_pc = "fetch" /\ ~st_raised /\ st_raised')
            => /\ st_pc' = "sleep05" /\ attempts' = <<>>
               /\ last_solved' = last_solved /\ notified' = notified
       /\ RaisedHandleDone
            => /\ last_solved' = last_solved /\ notified' = notified
               /\ IF st_idx < Len(handle_to_chats)
                  THEN /\ st_pc' = "fetch" /\ st_judge' = st_judge /\ st_idx' = st_idx + 1
                       /\ polled' = Append(polled, handle_to_chats[st_idx + 1].k)
                  ELSE IF st_judge = "cf" /\ TrackedHandles("ac") # {}
                  THEN st_pc' = "fetch" /\ st_judge' = "ac" /\ st_idx' = 1
                  ELSE st_pc' = "sleep60"]_vars

\* bob, the last handle of the CF phase, had an accepted submission whose poll
\* result raised: nothing was sent for it and the cache has no entry, and the
\* AtCoder phase of the same pass is delivering alice's submission
ErrorContainedWitness ==
    /\ cycle = 1 /\ st_judge = "ac" /\ st_pc = "send" /\ CurrentHandle = "alice"
    /\ runs["cf"]["bob"].id # NoneVal /\ runs["cf"]["bob"].sent = 0
    /\ last_solved["cf"]["bob"] = NoneVal
    /\ <<"cf", "bob">> \notin notified

-----------------------------------------------------------------------------
(* Claims about the timing of the stalker *)

\* the interval P of the cycle, in half seconds
Period == SleepTicks

\* a pass has started after an earlier one: clock.period is the time between
\* the two starts and clock.took the time the phases of the earlier one took
SecondStart == clock.on /\ cycle >= 2

\* C23 as stated: when the two phases of a pass took less than P, the next
\* pass starts P after that pass started.
CyclePeriodIsP == (SecondStart /\ clock.took < Period) => clock.period = Period

\* C23 as amended: the sleep that ends a pass is 60 s whatever the phases
\* took, so the next pass starts 60 s after the phases of the pass were over:
\* the time between two starts is the time of the phases plus 60 s, which is
\* more than P as soon as a handle was polled.
CyclePeriodIsPhasesPlusSleep ==
    SecondStart => /\ clock.period = clock.took + SleepTicks
                   /\ clock.took >= 2 * PauseTicks
                   /\ clock.period > Period

\* the phases of the first pass took 1.5 s (two pauses and one poll of half a
\* second) and the second pass started 61.5 s after the first
CyclePeriodWitness ==
    /\ cycle = 2 /\ clock.on /\ clock.took = 3 /\ clock.period = 123
    /\ st_pc = "fetch" /\ st_judge = "cf"

-----------------------------------------------------------------------------
(* Claims about the cache, continued *)

\* the handles of judge p that have an entry in the cache
Cached(cache, p) == {h \in Handles : cache[p][h] # NoneVal}

\* a poll has returned and the fan-out of a notification starts
FanOutStart == st_pc = "fetch" /\ st_pc' = "send"

\* C22: no step removes an entry from the cache, whether it is an unfollow, a
\* toggle command, a poll that failed or one whose latest submission is not
\* accepted; hence a notification never starts for the submission the cache
\* holds for the handle, also after the handle was unfollowed and followed again.
NoEviction ==
    [][/\ \A p \in Platforms : Cached(last_solved, p) \subseteq Cached(last_solved', p)
       /\ FanOutStart => st_sub_id' # last_solved[st_judge][CurrentHandle]]_vars

\* alice's accepted submission 1 was notified in the first pass; chat 100
\* then unfollowed alice and followed her again (she is now last in its list),
\* and the poll of the second pass returned submission 1 again: nothing is sent
NoEvictionWitness ==
    /\ cycle = 2 /\ st_judge = "cf" /\ st_pc = "sleep05" /\ CurrentHandle = "alice"
    /\ STALK_LIST["cf"] = <<[k |-> "100", v |-> <<"bob", "alice">>],
                           [k |-> "200", v |-> <<"alice">>]>>
    /\ snap = STALK_LIST["cf"]
    /\ last_solved["cf"]["alice"] = [id |-> 1] /\ st_seen = [id |-> 1]
    /\ runs["cf"]["alice"] = [id |-> [id |-> 1], polls |-> 2, sent |-> 1]
    /\ attempts = <<>>

-----------------------------------------------------------------------------
(* Claims about who is notified *)

\* chat_id had handle h in the list of the judge when the phase in progress
\* built its reverse index
TrackedAtSnapshot(chat_id, h) == h \in Range(DictGet(snap, StrOf(chat_id), <<>>))

\* C25: every send_message call of a phase, about handle H of judge J, goes to
\* a chat that had H in its judge-J list when the phase built its reverse
\* index, whatever follow and unfollow commands ran since.
SubscribersOnly ==
    st_judge \in Platforms =>
        \A i \in DOMAIN attempts : TrackedAtSnapshot(attempts[i].chat, CurrentHandle)

\* chat 100 unfollowed bob after the CF phase had built its index: bob's
\* notification is delivered to chat 100, which tracked bob at the snapshot,
\* and to no other chat
SubscribersOnlyWitness ==
    /\ st_judge = "cf" /\ st_pc = "sleep05" /\ CurrentHandle = "bob"
    /\ attempts = <<[chat |-> 100, ok |-> TRUE]>>
    /\ TrackedAtSnapshot(100, "bob") /\ ~TrackedAtSnapshot(200, "bob")
    /\ "bob" \notin Range(list_stalks(STALK_LIST, 100, "cf"))

-----------------------------------------------------------------------------
(* Claims about data.json *)

LastCall == calls[2]

\* the last registry call changed the registry or the nicknames, so it called
\* save_all, and save_data_raw raised in it
SaveFailedInLastCall ==
    /\ disk.on
    /\ \/ LastCall.name = "set_me"
       \/ LastCall.name \in {"follow", "unfollow"} /\ LastCall.ret # [bool |-> FALSE]
    /\ disk.last \in {"open_fails", "write_fails"}

\* the change the last call made is in memory
MutationKept ==
    CASE LastCall.name = "follow" ->
            LastCall.handle \in Range(list_stalks(STALK_LIST, LastCall.chat_id, LastCall.platform))
      [] LastCall.name = "unfollow" ->
            LastCall.handle \notin Range(list_stalks(STALK_LIST, LastCall.chat_id, LastCall.platform))
      [] OTHER ->
            LET e == Lookup(USER_NICKS, StrOf(LastCall.chat_id))
            IN  \A p \in Platforms :
                    LastCall.platform \in {p, "any"} => e[p] = Nick(LastCall.handle)

\* the last call returned to its caller, follow and unfollow with True
ReportsSuccess ==
    /\ LastCall.ret # Raised
    /\ LastCall.name \in {"follow", "unfollow"} => LastCall.ret = [bool |-> TRUE]

\* C24 as stated: when saving fails during a follow, an unfollow or a nickname
\* change, the change stays in memory, the operation returns normally (follow
\* and unfollow with True), and data.json holds what it held before the call.
PersistenceFailureHarmless ==
    SaveFailedInLastCall => MutationKept /\ ReportsSuccess /\ disk.content = disk.before

-----------------------------------------------------------------------------
(* Claims about the handler tasks *)

\* the tasks that ran op on (chat_id, platform, handle) and got True
Succeeded(op, chat_id, platform, handle) ==
    {t \in DOMAIN tasks :
        /\ tasks[t].op = op /\ tasks[t].chat_id = chat_id
        /\ tasks[t].platform = platform /\ tasks[t].handle = handle
        /\ tasks[t].ret = [bool |-> TRUE]}

\* how often handle is in the list of chat_id
Count(reg, chat_id, platform, handle) ==
    LET l == list_stalks(reg, chat_id, platform)
    IN  Cardinality({i \in DOMAIN l : l[i] = handle})

\* from the empty registry: the handle is in the list once for the follow
\* that returned True and no unfollow undid, and not at all otherwise
WholeOperations(reg) ==
    \A c \in ChatIds, p \in Platforms, h \in Handles :
        Count(reg, c, p, h) = Cardinality(Succeeded("follow", c, p, h))
                                - Cardinality(Succeeded("unfollow", c, p, h))

\* C21: with the handler tasks and the stalker interleaved at their awaits,
\* the registry is at every moment the result of whole add_stalk and
\* remove_stalk calls: no handle is in a list twice, two follow tasks of the
\* same chat, judge and handle return True only with an unfollow that
\* returned True for it as well, and the index of a phase is built from such
\* a registry.
AtomicRegistry ==
    /\ WholeOperations(STALK_LIST)
    /\ \A c \in ChatIds, p \in Platforms, h \in Handles :
          /\ Count(STALK_LIST, c, p, h) <= 1
          /\ Cardinality(Succeeded("follow", c, p, h))
                <= 1 + Cardinality(Succeeded("unfollow", c, p, h))
    /\ st_judge \in Platforms =>
          /\ handle_to_chats = BuildIndex(snap)
          /\ \A i \in DOMAIN snap : NoDup(snap[i].v)

\* two follow tasks for alice of chat 100 were started before either ran:
\* the first returned True, the second False, both are at their reply, and
\* the CF phase polls alice from an index with chat 100 once
AtomicRegistryWitness ==
    /\ Len(tasks) = 2
    /\ \A t \in {1, 2} : tasks[t].op = "follow" /\ tasks[t].handle = "alice"
                          /\ tasks[t].pc = "reply"
    /\ tasks[2].ret = [bool |-> TRUE] /\ tasks[1].ret = [bool |-> FALSE]
    /\ st_judge = "cf" /\ st_pc = "fetch"
    /\ handle_to_chats = <<[k |-> "alice", v |-> <<"100">>]>>

-----------------------------------------------------------------------------
(* Claims about the progress of the stalker *)

\* safe_get_json is about to be called for handle h of judge p
Polling(p, h) == st_judge = p /\ st_pc = "fetch" /\ CurrentHandle = h

\* the poll of h has returned s as an accepted submission the cache does not hold
NewSeen(p, h, s) ==
    /\ st_judge = p /\ st_pc \in {"send", "sleep05"} /\ CurrentHandle = h
    /\ st_new /\ st_seen = s

\* a poll of h has returned something else than s as the most recent submission
OtherSeen(p, h, s) ==
    /\ st_judge = p /\ st_pc \in {"send", "sleep05"} /\ CurrentHandle = h
    /\ st_seen # s

\* send_message has been called for the submission s of h
Notifying(p, h, s) ==
    /\ st_judge = p /\ CurrentHandle = h
    /\ st_sub_id = s /\ attempts # <<>>

\* C26 as stated: when every fetch, send and sleep returns and the task is not
\* cancelled, every phase terminates, every handle that stays tracked with its
\* judge's toggle on is polled again and again, and a new accepted submission
\* is eventually notified unless a later poll returns another submission as
\* the most recent one.
StalkerProgress ==
    /\ \A p \in Platforms : (st_judge = p) ~> (st_judge # p)
    /\ \A p \in Platforms : \A h \in {"alice"} : []<>Polling(p, h)
    /\ \A p \in Platforms : \A h \in {"alice"} : \A s \in SubIds :
          NewSeen(p, h, s) ~> (Notifying(p, h, s) \/ OtherSeen(p, h, s))

====
